---- MODULE Spec2Model ----
(***************************************************************************)
(* Joel112003/zerodha-backend: the order-placement routine (POST           *)
(* /newOrder), the holdings and order ledgers, the periodic approval       *)
(* sweep, signup, and the middleware order of the two server files.        *)
(*                                                                         *)
(* Each request handler is an async function: it runs without interruption *)
(* between two awaits, and every await of a database call is a point where *)
(* other handlers and the timer may run.  One action of the model is one   *)
(* such uninterrupted piece together with the database call that ends it.  *)
(*                                                                         *)
(* Numbers are exact rationals n/d in lowest terms.  JavaScript computes   *)
(* in IEEE-754 doubles; for the quantities and prices drawn here every     *)
(* intermediate value is the correctly rounded rational, so the model and  *)
(* the code agree on these inputs.                                         *)
(*                                                                         *)
(* The Order schema with the approved flag and its timer is the one        *)
(* modelled; the schema without the flag behaves as the runs in which      *)
(* ApproveOrders never fires.  save() and create() on the Holding and User *)
(* collections insert unconditionally: the handlers show no constraint on  *)
(* name, email or username other than their own findOne lookups.           *)
(***************************************************************************)
EXTENDS Integers, Sequences, FiniteSets, TLC

\* ------------------------------------------------------------------ bounds
MaxOrders == 3      \* validated orders accepted in one run
MaxInFlight == 2    \* /newOrder handlers that may be suspended at once
MaxQty == 3         \* largest quantity bought in one order
MaxSellQty == 2     \* largest quantity sold in one order
MaxPrice == 2       \* largest order price drawn
NumSignups == 2     \* signup requests in one run

VARIABLES
    server,     \* which server file runs, and NODE_ENV for index.js
    orders,     \* the Order collection, in insertion order
    holdings,   \* the Holding collection: a set of documents with an _id
    pc,         \* per validated /newOrder request: where its handler is suspended
    req,        \* per validated /newOrder request: req.body
    existing,   \* per validated /newOrder request: existingHolding (result of findOne)
    status,     \* per validated /newOrder request: HTTP status of the response (0: none yet)
    rejected,   \* status of the last /newOrder response sent before any await (0: none yet)
    users,      \* the User collection, in insertion order
    spc,        \* per signup request: where its handler is suspended
    sreq,       \* per signup request: email, password, username after normalization
    sfound,     \* per signup request: existingEmail, existingUsername (found or not)
    sstatus,    \* per signup request: HTTP status of the response (0: none yet)
    routed      \* the last request put through the middleware stack and who answered

orderVars == <<orders, holdings, pc, req, existing, status, rejected>>
authVars == <<users, spc, sreq, sfound, sstatus>>
vars == <<server, orders, holdings, pc, req, existing, status, rejected,
          users, spc, sreq, sfound, sstatus, routed>>

\* --------------------------------------------------------------- rationals
RECURSIVE GCD(_, _)
GCD(a, b) == IF b = 0 THEN a ELSE GCD(b, a % b)

Abs(x) == IF x < 0 THEN -x ELSE x

\* n/d in lowest terms with d > 0
Rat(n, d) ==
    LET g == GCD(Abs(n), Abs(d))
        s == IF d < 0 THEN -1 ELSE 1
    IN  [n |-> s * (n \div g), d |-> s * (d \div g)]

RatInt(k) == [n |-> k, d |-> 1]

\* ------------------------------------------------------------- JSON values
\* A field of req.body: absent, a number or a string.
JUndef == [t |-> "undefined", n |-> 0, d |-> 1, s |-> ""]
JNum(n, d) == [t |-> "number", n |-> Rat(n, d).n, d |-> Rat(n, d).d, s |-> ""]
JStr(x) == [t |-> "string", n |-> 0, d |-> 1, s |-> x]

\* JavaScript's !v
Falsy(v) ==
    \/ v.t = "undefined"
    \/ v.t = "number" /\ v.n = 0
    \/ v.t = "string" /\ v.s = ""

\* Number.isInteger(v)
IsInteger(v) == v.t = "number" /\ v.d = 1

Names == {"INFY", "TCS"}
Modes == {"BUY", "SELL"}
\* The handler of the p-th validated request is handler p.
Procs == 1 .. MaxOrders

\* Purchases and sales of INFY (sales at the highest price), and a purchase of
\* one TCS share as the other ticker.
ValidBodies ==
    { [name |-> JStr("INFY"), qty |-> JNum(q, 1), price |-> JNum(p, 1), mode |-> JStr("BUY")] :
        q \in 1 .. MaxQty, p \in 1 .. MaxPrice }
    \cup { [name |-> JStr("INFY"), qty |-> JNum(q, 1), price |-> JNum(MaxPrice, 1),
             mode |-> JStr("SELL")] : q \in 1 .. MaxSellQty }
    \cup { [name |-> JStr("TCS"), qty |-> JNum(1, 1), price |-> JNum(1, 1), mode |-> JStr("BUY")] }

BaseBody == [name |-> JStr("INFY"), qty |-> JNum(1, 1), price |-> JNum(1, 1), mode |-> JStr("SELL")]

\* Bodies that break one validation rule each.
InvalidBodies ==
    { [BaseBody EXCEPT !.name = v] : v \in {JUndef, JStr("")} }
    \cup { [BaseBody EXCEPT !.qty = v] :
             v \in {JNum(0, 1), JNum(-1, 1), JNum(3, 2), JStr("1")} }
    \cup { [BaseBody EXCEPT !.price = v] : v \in {JNum(-1, 1), JStr("1")} }
    \cup { [BaseBody EXCEPT !.mode = v] : v \in {JUndef, JStr("HOLD")} }

Bodies == ValidBodies \cup InvalidBodies

NoBody == [name |-> JUndef, qty |-> JUndef, price |-> JUndef, mode |-> JUndef]

\* -------------------------------------------------------------- validation
\* Variant of ValidationMessage without the qty <= 0 test.
MutValidationMessage(body) ==
    IF Falsy(body.name) \/ Falsy(body.qty) \/ Falsy(body.price) \/ Falsy(body.mode)
    THEN "Missing required fields"
    ELSE IF ~IsInteger(body.qty)
    THEN "Quantity must be a positive integer"
    ELSE IF body.price.t # "number" \/ body.price.n <= 0
    THEN "Price must be a positive number"
    ELSE IF ~(body.mode.t = "string" /\ body.mode.s \in Modes)
    THEN "Mode must be BUY or SELL"
    ELSE ""

\* The first failing check of the handler, "" when all pass.
ValidationMessage(body) ==
    IF Falsy(body.name) \/ Falsy(body.qty) \/ Falsy(body.price) \/ Falsy(body.mode)
    THEN "Missing required fields"
    ELSE IF ~IsInteger(body.qty) \/ body.qty.n <= 0
    THEN "Quantity must be a positive integer"
    ELSE IF body.price.t # "number" \/ body.price.n <= 0
    THEN "Price must be a positive number"
    ELSE IF ~(body.mode.t = "string" /\ body.mode.s \in Modes)
    THEN "Mode must be BUY or SELL"
    ELSE ""

\* --------------------------------------------------------------- documents
\* new OrderModel({ name, qty, price, mode }); approved defaults to false
OrderDoc(body) ==
    [name |-> body.name.s, qty |-> body.qty.n,
     price |-> Rat(body.price.n, body.price.d), mode |-> body.mode.s,
     approved |-> FALSE]

NoHolding ==
    [id |-> 0, name |-> "", qty |-> 0, avg |-> RatInt(0), price |-> RatInt(0),
     net |-> 0, day |-> 0]

\* new HoldingModel({ name, qty, avg: price, price, net: 0, day: 0 })
NewHolding(id, name, qty, price) ==
    [id |-> id, name |-> name, qty |-> qty, avg |-> price, price |-> price,
     net |-> 0, day |-> 0]

\* _ids are opaque and never reused while a document or a handler's
\* existingHolding still carries them.
UsedIds == {h.id : h \in holdings} \cup {existing[p].id : p \in Procs}

FreshId ==
    CHOOSE i \in 1 .. (Cardinality(UsedIds) + 1) :
        i \notin UsedIds /\ \A j \in 1 .. (i - 1) : j \in UsedIds

\* Variant of NewAvgPrice that averages the two prices without their weights.
MutNewAvgPrice(ex, qty, price) ==
    Rat(ex.avg.n * price.d + price.n * ex.avg.d, ex.avg.d * price.d * 2)

\* newAvgPrice = (existing.avg * existing.qty + price * qty) / (existing.qty + qty)
NewAvgPrice(ex, qty, price) ==
    Rat(ex.avg.n * ex.qty * price.d + price.n * qty * ex.avg.d,
        ex.avg.d * price.d * (ex.qty + qty))

\* findByIdAndUpdate(existingHolding._id, { qty: totalQty, avg: newAvgPrice, price }):
\* the values come from the handler's copy ex; a document deleted meanwhile is
\* not recreated.
UpdateBuy(hs, ex, qty, price) ==
    { IF h.id = ex.id
      THEN [h EXCEPT !.qty = ex.qty + qty,
                     !.avg = NewAvgPrice(ex, qty, price),
                     !.price = price]
      ELSE h : h \in hs }

\* Variant of UpdateSell that keeps the document when nothing remains (>= 0).
MutUpdateSellKeepsZero(hs, ex, qty, price) ==
    LET remainingQty == ex.qty - qty
    IN  IF remainingQty >= 0
        THEN [hs |-> { IF h.id = ex.id
                       THEN [h EXCEPT !.qty = remainingQty, !.price = price]
                       ELSE h : h \in hs },
              threw |-> FALSE]
        ELSE [hs |-> hs, threw |-> TRUE]

\* Variant of UpdateSell whose partial sell also resets avg to the trade price.
MutUpdateSellResetsAvg(hs, ex, qty, price) ==
    LET remainingQty == ex.qty - qty
    IN  IF remainingQty > 0
        THEN [hs |-> { IF h.id = ex.id
                       THEN [h EXCEPT !.qty = remainingQty, !.price = price, !.avg = price]
                       ELSE h : h \in hs },
              threw |-> FALSE]
        ELSE IF remainingQty = 0
        THEN [hs |-> { h \in hs : h.id # ex.id }, threw |-> FALSE]
        ELSE [hs |-> hs, threw |-> TRUE]

\* Variant of UpdateSell that deletes on an oversell instead of throwing (<= 0).
MutUpdateSellNoThrow(hs, ex, qty, price) ==
    LET remainingQty == ex.qty - qty
    IN  IF remainingQty > 0
        THEN [hs |-> { IF h.id = ex.id
                       THEN [h EXCEPT !.qty = remainingQty, !.price = price]
                       ELSE h : h \in hs },
              threw |-> FALSE]
        ELSE [hs |-> { h \in hs : h.id # ex.id }, threw |-> FALSE]

\* Variant of UpdateSell that decrements the stored quantity ($inc: { qty: -qty }).
MutUpdateSellAtomic(hs, ex, qty, price) ==
    LET remainingQty == ex.qty - qty
    IN  IF remainingQty > 0
        THEN [hs |-> { IF h.id = ex.id
                       THEN [h EXCEPT !.qty = h.qty - qty, !.price = price]
                       ELSE h : h \in hs },
              threw |-> FALSE]
        ELSE IF remainingQty = 0
        THEN [hs |-> { h \in hs : h.id # ex.id }, threw |-> FALSE]
        ELSE [hs |-> hs, threw |-> TRUE]

\* The SELL branch on an existing holding: the new collection and whether the
\* handler threw.
UpdateSell(hs, ex, qty, price) ==
    LET remainingQty == ex.qty - qty
    IN  IF remainingQty > 0
        THEN [hs |-> { IF h.id = ex.id
                       THEN [h EXCEPT !.qty = remainingQty, !.price = price]
                       ELSE h : h \in hs },
              threw |-> FALSE]
        ELSE IF remainingQty = 0
        THEN [hs |-> { h \in hs : h.id # ex.id }, threw |-> FALSE]
        ELSE [hs |-> hs, threw |-> TRUE]

\* ----------------------------------------------------------------- routing
Servers == {"index_dev", "index_prod", "part000"}
Methods == {"GET", "POST", "PUT", "DELETE"}
Paths == {"/auth/signup", "/addholdings", "/addpositions", "/newOrder",
          "/holding/INFY", "/holding/TCS", "/getOrders", "/addOrders", "/nosuch"}

\* The signup route of the /auth router.
AuthRoutes == { <<"POST", "/auth/signup", "signup">> }

\* The routes index.js registers with app.get / app.post.
IndexRoutes ==
    { <<"GET", "/addholdings", "addholdings">>,
      <<"GET", "/addpositions", "addpositions">>,
      <<"POST", "/newOrder", "newOrder">>,
      <<"GET", "/holding/:stockName", "holding">>,
      <<"GET", "/getOrders", "orders">> }

\* The routes the second server file registers with app.get / app.post.
Part000Routes ==
    { <<"GET", "/addholdings", "addholdings">>,
      <<"GET", "/addpositions", "addpositions">>,
      <<"POST", "/newOrder", "newOrder">>,
      <<"GET", "/holding/:stockName", "holding">>,
      <<"GET", "/addOrders", "orders">> }

AppRoutes(srv) == IF srv = "part000" THEN Part000Routes ELSE IndexRoutes

Routes(srv) == AuthRoutes \cup AppRoutes(srv)

\* Express path matching: literal, or a :param segment taking any one segment.
Matches(pattern, path) ==
    \/ pattern = path
    \/ pattern = "/holding/:stockName" /\ path \in {"/holding/INFY", "/holding/TCS"}

HandlerOf(srv, method, path) ==
    LET matching == {r \in Routes(srv) : r[1] = method /\ Matches(r[2], path)}
    IN  IF matching = {} THEN "none" ELSE (CHOOSE r \in matching : TRUE)[3]

\* Who answers a request: the first middleware or route, in registration order,
\* that matches and does not call next().
\* index.js: /auth router, [production: express.static and app.get("*")], the 404
\* middleware, and only then the routes.
DispatchIndex(production, method, path) ==
    IF HandlerOf("index_dev", method, path) = "signup"
    THEN "signup"
    ELSE IF production /\ method = "GET"
    THEN "frontend"
    ELSE "notFound"

\* The second server file: /auth router, the five routes, express.static and
\* app.get("*"), the 404 middleware.
DispatchPart000(method, path) ==
    IF HandlerOf("part000", method, path) # "none"
    THEN HandlerOf("part000", method, path)
    ELSE IF method = "GET"
    THEN "frontend"
    ELSE "notFound"

Dispatch(srv, method, path) ==
    IF srv = "part000"
    THEN DispatchPart000(method, path)
    ELSE DispatchIndex(srv = "index_prod", method, path)

\* ------------------------------------------------------------------- Init
SProcs == 1 .. NumSignups

NoSignup == [email |-> <<>>, password |-> <<>>, username |-> <<>>]

Init ==
    /\ server \in Servers
    /\ orders = <<>>
    /\ holdings = {}
    /\ pc = [p \in Procs |-> "idle"]
    /\ req = [p \in Procs |-> NoBody]
    /\ existing = [p \in Procs |-> NoHolding]
    /\ status = [p \in Procs |-> 0]
    /\ rejected = 0
    /\ users = <<>>
    /\ spc = [p \in SProcs |-> "idle"]
    /\ sreq = [p \in SProcs |-> NoSignup]
    /\ sfound = [p \in SProcs |-> [email |-> FALSE, username |-> FALSE]]
    /\ sstatus = [p \in SProcs |-> 0]
    /\ routed = [method |-> "", path |-> "", answeredBy |-> ""]

\* ------------------------------------------------------- POST /newOrder
InFlight == {p \in Procs : pc[p] \in {"find", "write"}}

\* Request arrives and is validated; a valid one saves its Order and suspends.
\* A rejected request is answered in the same tick and never suspends.
NewOrder(body) ==
    /\ Dispatch(server, "POST", "/newOrder") = "newOrder"
    /\ IF ValidationMessage(body) # ""
       THEN /\ rejected' = 400
            /\ UNCHANGED <<orders, holdings, pc, req, existing, status>>
       ELSE /\ Len(orders) < MaxOrders
            /\ Cardinality(InFlight) < MaxInFlight
            /\ LET p == Len(orders) + 1
               IN  /\ orders' = Append(orders, OrderDoc(body))
                   /\ req' = [req EXCEPT ![p] = body]
                   /\ pc' = [pc EXCEPT ![p] = "find"]
            /\ UNCHANGED <<holdings, existing, status, rejected>>
    /\ UNCHANGED <<server, authVars, routed>>

\* const existingHolding = await HoldingModel.findOne({ name })
FindHolding(p) ==
    /\ pc[p] = "find"
    /\ LET found == {h \in holdings : h.name = req[p].name.s}
       IN  IF found = {}
           THEN existing' = [existing EXCEPT ![p] = NoHolding]
           ELSE \E h \in found : existing' = [existing EXCEPT ![p] = h]
    /\ pc' = [pc EXCEPT ![p] = "write"]
    /\ UNCHANGED <<server, orders, holdings, req, status, rejected, authVars, routed>>

\* The branch on existingHolding and mode, its write, and the response.
UpdateHoldings(p) ==
    /\ pc[p] = "write"
    /\ LET ex == existing[p]
           name == req[p].name.s
           qty == req[p].qty.n
           price == Rat(req[p].price.n, req[p].price.d)
           mode == req[p].mode.s
       IN  IF ex # NoHolding
           THEN IF mode = "BUY"
                THEN /\ holdings' = UpdateBuy(holdings, ex, qty, price)
                     /\ status' = [status EXCEPT ![p] = 201]
                ELSE /\ holdings' = UpdateSell(holdings, ex, qty, price).hs
                     /\ status' = [status EXCEPT ![p] =
                           IF UpdateSell(holdings, ex, qty, price).threw THEN 500 ELSE 201]
           ELSE IF mode = "BUY"
                THEN /\ holdings' = holdings \cup {NewHolding(FreshId, name, qty, price)}
                     /\ status' = [status EXCEPT ![p] = 201]
                ELSE /\ holdings' = holdings
                     /\ status' = [status EXCEPT ![p] = 500]
    /\ pc' = [pc EXCEPT ![p] = "done"]
    /\ UNCHANGED <<server, orders, req, existing, rejected, authVars, routed>>

\* Variant of Approved that replaces the document by the update.
MutApproved(doc) ==
    [name |-> "", qty |-> 0, price |-> RatInt(0), mode |-> "", approved |-> TRUE]

\* The update { approved: true } applied to one Order.
Approved(doc) == [doc EXCEPT !.approved = TRUE]

\* Variant of ApproveOrders that is updateOne: only the first unapproved Order.
MutApproveOrders ==
    /\ orders' = [i \in DOMAIN orders |->
                    IF /\ orders[i].approved = FALSE
                       /\ \A j \in 1 .. i - 1 : orders[j].approved
                    THEN Approved(orders[i]) ELSE orders[i]]
    /\ UNCHANGED <<server, holdings, pc, req, existing, status, rejected, authVars, routed>>

\* setInterval(approveOrders, 10000): Order.updateMany({approved: false}, {approved: true})
ApproveOrders ==
    /\ orders' = [i \in DOMAIN orders |->
                    IF orders[i].approved = FALSE THEN Approved(orders[i]) ELSE orders[i]]
    /\ UNCHANGED <<server, holdings, pc, req, existing, status, rejected, authVars, routed>>

\* GET /addOrders, GET /getOrders: OrderModel.find()
GetOrdersData == orders

Quiescent == InFlight = {}

Next ==
    \/ \E body \in Bodies : NewOrder(body)
    \/ \E p \in Procs : FindHolding(p)
    \/ \E p \in Procs : UpdateHoldings(p)
    \/ ApproveOrders

Spec == Init /\ [][Next]_vars

\* Orders placed one after another: a valid request is accepted only when no
\* other /newOrder handler is in flight.
SeqNext ==
    \/ \E body \in Bodies : (ValidationMessage(body) = "" => Quiescent) /\ NewOrder(body)
    \/ \E p \in Procs : FindHolding(p)
    \/ \E p \in Procs : UpdateHoldings(p)
    \/ ApproveOrders

SeqSpec == Init /\ [][SeqNext]_vars

\* The timer keeps firing and updateMany succeeds: a sweep that would change
\* the collection is not postponed forever.  A sweep whose updateMany throws
\* is caught and logged and changes nothing, which is a stuttering step.
\* Nothing is assumed of the request handlers.
FairSpec == Spec /\ WF_vars(ApproveOrders)

\* ------------------------------------------------------ POST /auth/signup
\* Strings are sequences of characters here, so that trim and toLowerCase act.
Space == " "

RECURSIVE TrimLeft(_)
TrimLeft(str) ==
    IF str # <<>> /\ Head(str) = Space THEN TrimLeft(Tail(str)) ELSE str

RECURSIVE TrimRight(_)
TrimRight(str) ==
    IF str # <<>> /\ str[Len(str)] = Space
    THEN TrimRight(SubSeq(str, 1, Len(str) - 1))
    ELSE str

\* String.prototype.trim
Trim(str) == TrimRight(TrimLeft(str))

LowerOf(c) ==
    IF c = "A" THEN "a" ELSE IF c = "B" THEN "b" ELSE IF c = "C" THEN "c" ELSE c

\* String.prototype.toLowerCase
ToLowerCase(str) == [i \in DOMAIN str |-> LowerOf(str[i])]

\* /^[^\s@]+@[^\s@]+\.[^\s@]+$/
isValidEmail(email) ==
    \E a \in DOMAIN email : \E d \in DOMAIN email :
        /\ email[a] = "@" /\ email[d] = "."
        /\ 1 < a /\ a + 1 < d /\ d < Len(email)
        /\ \A i \in DOMAIN email : email[i] # Space /\ (email[i] = "@" => i = a)

PASSWORD_MIN_LENGTH == 8

\* validationErrors, in the order the handler pushes them; the arguments are
\* already normalized.
ValidationErrors(email, password, username) ==
    (IF email = <<>> THEN <<"Email is required">>
     ELSE IF ~isValidEmail(email) THEN <<"Invalid email format">> ELSE <<>>)
    \o (IF password = <<>> THEN <<"Password is required">>
        ELSE IF Len(password) < PASSWORD_MIN_LENGTH
        THEN <<"Password must be at least 8 characters">> ELSE <<>>)
    \o (IF username = <<>> THEN <<"Username is required">>
        ELSE IF Len(username) < 3
        THEN <<"Username must be at least 3 characters">> ELSE <<>>)

RawEmails ==
    { <<"a", "@", "b", ".", "c">>, <<" ", "A", "@", "b", ".", "c">>,
      <<"d", "@", "b", ".", "c">>, <<"a", "@", "b">> }
RawUsernames == { <<"b", "o", "b">>, <<"b", "o", "b", " ">>, <<"a", "m", "y">>, <<"a", "b">> }
RawPasswords ==
    { <<"p", "a", "s", "s", "w", "o", "r", "d">>, <<" ", "p", "a", "s", "s", "w", "o", "r">> }

\* bcrypt.hash(password, SALT_ROUNDS): an opaque value that is not the password
Hash(password) == <<"$2a$10$">> \o password

\* Request arrives; inputs are normalized and validated.  Request p is the
\* p-th signup request.
Signup(p, email, password, username) ==
    /\ Dispatch(server, "POST", "/auth/signup") = "signup"
    /\ spc[p] = "idle"
    /\ \A q \in SProcs : q < p => spc[q] # "idle"
    /\ LET e == ToLowerCase(Trim(email))
           pw == Trim(password)
           u == Trim(username)
       IN  /\ sreq' = [sreq EXCEPT ![p] = [email |-> e, password |-> pw, username |-> u]]
           /\ IF ValidationErrors(e, pw, u) # <<>>
              THEN /\ sstatus' = [sstatus EXCEPT ![p] = 400]
                   /\ spc' = [spc EXCEPT ![p] = "done"]
              ELSE /\ spc' = [spc EXCEPT ![p] = "lookup"]
                   /\ UNCHANGED sstatus
    /\ UNCHANGED <<server, orderVars, users, sfound, routed>>

\* The continuation after Promise.all: 409 on a collision (email first),
\* otherwise on to hashing and User.create.
AfterLookups(p, found) ==
    IF found.email \/ found.username
    THEN /\ sstatus' = [sstatus EXCEPT ![p] = 409]
         /\ spc' = [spc EXCEPT ![p] = "done"]
    ELSE /\ spc' = [spc EXCEPT ![p] = "create"]
         /\ UNCHANGED sstatus

\* User.findOne({ email }), one of the two concurrent lookups
LookupEmail(p) ==
    /\ spc[p] \in {"lookup", "lookupU"}
    /\ LET found == [sfound[p] EXCEPT !.email =
                        \E i \in DOMAIN users : users[i].email = sreq[p].email]
       IN  /\ sfound' = [sfound EXCEPT ![p] = found]
           /\ IF spc[p] = "lookupU"
              THEN AfterLookups(p, found)
              ELSE spc' = [spc EXCEPT ![p] = "lookupE"] /\ UNCHANGED sstatus
    /\ UNCHANGED <<server, orderVars, users, sreq, routed>>

\* User.findOne({ username }), the other lookup
LookupUsername(p) ==
    /\ spc[p] \in {"lookup", "lookupE"}
    /\ LET found == [sfound[p] EXCEPT !.username =
                        \E i \in DOMAIN users : users[i].username = sreq[p].username]
       IN  /\ sfound' = [sfound EXCEPT ![p] = found]
           /\ IF spc[p] = "lookupE"
              THEN AfterLookups(p, found)
              ELSE spc' = [spc EXCEPT ![p] = "lookupU"] /\ UNCHANGED sstatus
    /\ UNCHANGED <<server, orderVars, users, sreq, routed>>

\* bcrypt.hash, User.create, and the 201 response with the token
CreateUser(p) ==
    /\ spc[p] = "create"
    /\ users' = Append(users, [email |-> sreq[p].email,
                               password |-> Hash(sreq[p].password),
                               username |-> sreq[p].username])
    /\ sstatus' = [sstatus EXCEPT ![p] = 201]
    /\ spc' = [spc EXCEPT ![p] = "done"]
    /\ UNCHANGED <<server, orderVars, sreq, sfound, routed>>

AuthNext ==
    \/ \E p \in SProcs, e \in RawEmails, pw \in RawPasswords, u \in RawUsernames :
          Signup(p, e, pw, u)
    \/ \E p \in SProcs : LookupEmail(p)
    \/ \E p \in SProcs : LookupUsername(p)
    \/ \E p \in SProcs : CreateUser(p)

AuthSpec == Init /\ [][AuthNext]_vars

\* ---------------------------------------------------------- middleware stack
\* A request goes down the stack of the running file; routed records who answered.
Route(method, path) ==
    /\ routed' = [method |-> method, path |-> path,
                  answeredBy |-> Dispatch(server, method, path)]
    /\ UNCHANGED <<server, orderVars, authVars>>

RouteNext == \E method \in Methods, path \in Paths : Route(method, path)

RouteSpec == Init /\ [][RouteNext]_vars

\* ================================================================== claims
Price(body) == Rat(body.price.n, body.price.d)

\* An Order carries the four fields of the request body.
SameOrder(o, body) ==
    /\ o.name = body.name.s
    /\ o.qty = body.qty.n
    /\ o.price = Price(body)
    /\ o.mode = body.mode.s

\* A body that fails input validation, in the words of the contract: a missing or
\* falsy field, qty not a positive integer, price not a positive number, mode
\* neither BUY nor SELL.
FailsValidation(body) ==
    \/ \E f \in {body.name, body.qty, body.price, body.mode} :
          \/ f.t = "undefined"
          \/ f.t = "number" /\ f.n = 0
          \/ f.t = "string" /\ f.s = ""
    \/ ~(body.qty.t = "number" /\ body.qty.d = 1 /\ body.qty.n > 0)
    \/ ~(body.price.t = "number" /\ body.price.n > 0)
    \/ ~(body.mode.t = "string" /\ body.mode.s \in {"BUY", "SELL"})

\* C1: a /newOrder request that fails input validation is answered 400 and
\* changes neither the order ledger nor the holdings ledger.
C1_RejectedNoWrites ==
    [][\A body \in Bodies :
          (FailsValidation(body) /\ NewOrder(body)) =>
              /\ rejected' = 400
              /\ orders' = orders
              /\ holdings' = holdings]_vars

\* A request has been rejected while both ledgers hold documents.
C1_Witness == rejected = 400 /\ Len(orders) = MaxOrders /\ holdings # {}

\* ------------------------------------------------------------------- C2
OrdersOf(name) == {i \in DOMAIN orders : orders[i].name = name}

RECURSIVE SumQty(_)
SumQty(I) ==
    IF I = {} THEN 0
    ELSE LET i == CHOOSE j \in I : TRUE IN orders[i].qty + SumQty(I \ {i})

\* sum of price_i * qty_i as a rational
RECURSIVE SumCost(_)
SumCost(I) ==
    IF I = {} THEN RatInt(0)
    ELSE LET i == CHOOSE j \in I : TRUE
             rest == SumCost(I \ {i})
             c == orders[i].price
         IN  Rat(c.n * orders[i].qty * rest.d + rest.n * c.d, c.d * rest.d)

Latest(I) == CHOOSE i \in I : \A j \in I : j <= i

C3_QtyPositive ==
    /\ [](\A h \in holdings : h.qty \in Nat \ {0})
    /\ [][\A p \in Procs :
            (/\ UpdateHoldings(p)
             /\ req[p].mode.s = "SELL"
             /\ existing[p] # NoHolding
             /\ existing[p].qty - req[p].qty.n = 0)
            => \A h \in holdings' : h.id # existing[p].id]_vars

\* A SELL of the whole quantity has been answered 201 and its Holding is gone,
\* while another Holding is stored.
C3_Witness ==
    \E p \in Procs :
        /\ pc[p] = "done" /\ status[p] = 201 /\ req[p].mode.s = "SELL"
        /\ existing[p].qty = req[p].qty.n
        /\ \A h \in holdings : h.id # existing[p].id
        /\ holdings # {}

\* ------------------------------------------------------------------- C4
\* C4: a SELL of q on a ticker whose Holding has Q > q sets that Holding's qty
\* to Q - q and its price to the order's price, and changes nothing else: not
\* its avg, net, day or name, and no other Holding.
C4_PartialSellFrame ==
    [][\A p \in Procs : \A h \in holdings :
          (/\ UpdateHoldings(p)
           /\ req[p].mode.s = "SELL"
           /\ h.name = req[p].name.s
           /\ h.qty > req[p].qty.n)
          => holdings' = (holdings \ {h}) \cup
                 {[h EXCEPT !.qty = h.qty - req[p].qty.n, !.price = Price(req[p])]}]_vars

\* A partial SELL has been executed: quantity reduced, price overwritten, avg
\* (different from both prices) kept, with a Holding of another ticker present.
C4_Witness ==
    \E p \in Procs : \E h \in holdings :
        /\ pc[p] = "done" /\ status[p] = 201 /\ req[p].mode.s = "SELL"
        /\ h.id = existing[p].id
        /\ h.qty = existing[p].qty - req[p].qty.n
        /\ h.price # existing[p].price
        /\ h.avg = existing[p].avg /\ h.avg # h.price
        /\ \E g \in holdings : g.name # h.name

\* ------------------------------------------------------------------- C5
\* The ticker has no Holding, or one with less than the quantity asked.
DomainError(body) ==
    \A h \in holdings : h.name = body.name.s => h.qty < body.qty.n

\* C5: a validated SELL on a ticker with no Holding, or for more than the
\* Holding's quantity, is answered 500, leaves the holdings ledger as it was,
\* and has added exactly its own Order to the order ledger.
C5_DomainErrorNoMutation ==
    [][/\ \A body \in ValidBodies :
            (body.mode.s = "SELL" /\ DomainError(body) /\ NewOrder(body))
            => /\ holdings' = holdings
               /\ Len(orders') = Len(orders) + 1
               /\ SameOrder(orders'[Len(orders')], body)
               /\ \A i \in DOMAIN orders : orders'[i] = orders[i]
       /\ \A p \in Procs :
            (/\ FindHolding(p) \/ UpdateHoldings(p)
             /\ req[p].mode.s = "SELL"
             /\ DomainError(req[p]))
            => /\ holdings' = holdings
               /\ orders' = orders
               /\ Len(orders) = p
               /\ SameOrder(orders[p], req[p])
               /\ pc'[p] = "done" => status'[p] = 500]_vars

\* An oversell has been answered 500: the Holding is still there with less
\* than the quantity asked, and the Order is the last of the ledger.
C5_Witness ==
    \E p \in Procs : \E h \in holdings :
        /\ pc[p] = "done" /\ status[p] = 500 /\ req[p].mode.s = "SELL"
        /\ h.name = req[p].name.s /\ h = existing[p] /\ h.qty < req[p].qty.n
        /\ Len(orders) = p /\ SameOrder(orders[p], req[p])

\* ------------------------------------------------------------------- C6
\* C6: every validated /newOrder request appends exactly one Order, and no step
\* (placement, sweep, read) removes an Order from the listing or changes its
\* name, qty, price or mode.
C6_LedgerAppendOnly ==
    [][/\ \A i \in DOMAIN GetOrdersData :
            /\ i \in DOMAIN GetOrdersData'
            /\ GetOrdersData'[i].name = GetOrdersData[i].name
            /\ GetOrdersData'[i].qty = GetOrdersData[i].qty
            /\ GetOrdersData'[i].price = GetOrdersData[i].price
            /\ GetOrdersData'[i].mode = GetOrdersData[i].mode
       /\ \A body \in Bodies :
            (ValidationMessage(body) = "" /\ NewOrder(body))
            => /\ Len(GetOrdersData') = Len(GetOrdersData) + 1
               /\ SameOrder(GetOrdersData'[Len(GetOrdersData')], body)]_vars

\* Orders placed before and after a sweep are all listed, every handler done.
C6_Witness ==
    /\ Len(GetOrdersData) = MaxOrders
    /\ GetOrdersData[1].approved /\ ~GetOrdersData[MaxOrders].approved
    /\ \A p \in Procs : pc[p] = "done" /\ SameOrder(GetOrdersData[p], req[p])

\* ------------------------------------------------------------------- C7
\* C7: no two User records share an email and no two share a username.
C7_UniqueUsers ==
    \A i \in DOMAIN users : \A j \in DOMAIN users :
        i # j => /\ users[i].email # users[j].email
                 /\ users[i].username # users[j].username

\* ------------------------------------------------------------------- C8
\* C8: a request is answered by the 404 JSON handler if and only if its method
\* and path match no defined route.
C8_NotFoundIffNoRoute ==
    routed.method # "" =>
        (routed.answeredBy = "notFound"
            <=> HandlerOf(server, routed.method, routed.path) = "none")

\* ------------------------------------------------------------------- C9
\* C9: when a SELL writes while another SELL that read the same Holding (same
\* quantity Q) has already been answered 201 and its decrement is in the stored
\* document, the write stores Q minus its own quantity: the earlier decrement
\* is lost, and both are answered 201.
C9_LostUpdate ==
    [][\A p \in Procs : \A q \in Procs \ {p} :
          (/\ UpdateHoldings(q)
           /\ pc[p] = "done" /\ status[p] = 201
           /\ req[p].mode.s = "SELL" /\ req[q].mode.s = "SELL"
           /\ existing[p] # NoHolding /\ existing[q] = existing[p]
           /\ existing[q].qty > req[q].qty.n
           /\ \E h \in holdings :
                 h.id = existing[p].id /\ h.qty = existing[p].qty - req[p].qty.n)
          => /\ status'[q] = 201
             /\ \E h \in holdings' :
                   /\ h.id = existing[q].id
                   /\ h.qty = existing[q].qty - req[q].qty.n
                   /\ h.qty # existing[q].qty - req[p].qty.n - req[q].qty.n]_vars

\* Two SELLs read the same quantity Q, both were answered 201, together they
\* sold more than Q, and the Holding is still stored with a positive quantity.
C9_Witness ==
    \E p \in Procs : \E q \in Procs \ {p} : \E h \in holdings :
        /\ pc[p] = "done" /\ pc[q] = "done"
        /\ status[p] = 201 /\ status[q] = 201
        /\ req[p].mode.s = "SELL" /\ req[q].mode.s = "SELL"
        /\ existing[p] # NoHolding /\ existing[q] = existing[p]
        /\ req[p].qty.n + req[q].qty.n > existing[p].qty
        /\ h.id = existing[p].id
        /\ h.qty # existing[p].qty - req[p].qty.n - req[q].qty.n

\* ------------------------------------------------------------------ C10
\* C10: at most one Holding exists per ticker name.
C10_UniqueName ==
    \A g \in holdings : \A h \in holdings : g.name = h.name => g = h

\* ------------------------------------------------------------------ C11
\* C11: an Order enters the collection with approved = false; a sweep leaves
\* every Order that existed when it ran approved; an approved Order stays in
\* the collection and stays approved; and, with the sweep fair, every placed
\* Order is eventually approved, however placements and sweeps interleave.
C11_SweepApprovesAll ==
    /\ [][/\ \A i \in DOMAIN orders' \ DOMAIN orders : orders'[i].approved = FALSE
          /\ \A i \in DOMAIN orders :
                orders[i].approved => (i \in DOMAIN orders' /\ orders'[i].approved)
          /\ ApproveOrders =>
                /\ DOMAIN orders' = DOMAIN orders
                /\ \A i \in DOMAIN orders : orders'[i].approved]_vars
    /\ \A i \in Procs :
          (Len(orders) >= i) ~> (Len(orders) >= i /\ orders[i].approved)

\* Every Order of a full ledger is approved while a handler that placed one of
\* them is still suspended: the sweep ran between a placement and its response.
C11_Witness ==
    /\ Len(orders) = MaxOrders
    /\ \A i \in DOMAIN orders : orders[i].approved
    /\ InFlight # {}

====
